---------------------------- MODULE Spec2Model ----------------------------
(***************************************************************************)
(* A model of src/prime_livetv.py: the payload locator, the station        *)
(* extractor, the merge engine and the fetch/orchestration driver.         *)
(*                                                                         *)
(* Python values are modelled as follows.  None is the string "None".      *)
(* A station is a record [id, name, logo, schedule]; the master map is a   *)
(* function from the keys <<id, name>> it holds to stations.  A schedule   *)
(* item is a record whose field dict says whether the item is a mapping    *)
(* (isinstance(it, dict)); meta says whether its "metadata" is a non-empty *)
(* mapping.                                                                *)
(***************************************************************************)
EXTENDS Integers, Sequences, FiniteSets, TLC

VARIABLES
    master,     \* main: master; the merge engine's target map
    calls,      \* number of merge calls made on master so far
    incoming,   \* history: per key, the signatures and logos handed to merge so far
    again,      \* the map obtained by merging the latest list once more
    pairOK,     \* the latest step merged two lists of mappings without signature collisions
    swapped,    \* the map obtained by merging the latest two lists in the other order
    pc,         \* main's position: start, urls, posts, done, crashed; merge when
                \* the merge engine is run on its own
    opts,       \* the command line: the number of --url arguments, the payloads supplied
    urls,       \* opts.urls once the defaults are applied
    idx,        \* the number of URLs the loop has processed
    fetched,    \* history: the positions of the URLs fetched, in order
    sleeps,     \* the number of times the delay was applied
    pidx,       \* the payload the POST loop is about to post
    posted,     \* history: the payloads posted and what each gave
    urlMerges,  \* history: the number of URLs that contributed stations
    exit,       \* the exit status, -1 while running
    written,    \* the XMLTV file was written
    last        \* history: the latest response and what was made of it

mergeVars == <<calls, incoming, again, pairOK, swapped>>
mainVars == <<pc, opts, urls, idx, fetched, sleeps, pidx, posted, urlMerges, exit,
              written, last>>
vars == <<master, mergeVars, mainVars>>

None == "None"

(***************************************************************************)
(* Bounds                                                                  *)
(***************************************************************************)
MaxCalls == 3
MaxUrls == 2

(***************************************************************************)
(* Schedule items and stations the merge engine is exercised with          *)
(***************************************************************************)
Item(start, end, meta, title, synopsis) ==
    [dict |-> TRUE, start |-> start, end |-> end, meta |-> meta,
     title |-> title, synopsis |-> synopsis]

E1 == Item("100", "200", TRUE, "Show", "first")
\* same (start, end, title) as E1, other synopsis
E2 == Item("100", "200", TRUE, "Show", "second")
\* no metadata: its title reads as None
E3 == Item("200", "300", FALSE, None, None)
\* a schedule element that is not a mapping
Junk == [dict |-> FALSE, start |-> None, end |-> None, meta |-> FALSE,
         title |-> None, synopsis |-> None]

Station(id, name, logo, schedule) ==
    [id |-> id, name |-> name, logo |-> logo, schedule |-> schedule]

StationPool ==
    { Station("a", "A", "L1", <<E1>>),
      Station("a", "A", "L2", <<E3, E1>>),
      Station("a", "A", "L1", <<E2>>),
      Station("a", "A", "L1", <<E1, E1>>),
      Station(None, "B", "L2", <<E3>>),
      Station(None, "B", None, <<Junk, E1>>) }

\* station lists of at most two stations
StationLists ==
    {<<>>} \cup { <<s>> : s \in StationPool }
           \cup { <<s, t>> : s \in StationPool, t \in StationPool }

(***************************************************************************)
(* merge (src/prime_livetv.py:200-215)                                     *)
(***************************************************************************)
\* key = (st.get("id"), st.get("name"))
Key(st) == <<st.id, st.name>>

\* (i.get("start"), i.get("end"), (i.get("metadata") or {}).get("title"))
Sig(it) == <<it.start, it.end, IF it.meta THEN it.title ELSE None>>

\* seen = {sig(i) for i in sched if isinstance(i, dict)}
SeenSigs(sched) == { Sig(sched[n]) : n \in { k \in DOMAIN sched : sched[k].dict } }

\* a bug: the duplicate test is dropped, every mapping item is appended
AppendNew_NoDedup(sched, items) ==
    sched \o SelectSeq(items, LAMBDA it : it.dict)

\* for it in st.get("schedule") or []: skip non-mappings; append when the
\* signature is not yet seen (seen grows with every append)
RECURSIVE AppendNew(_, _)
AppendNew(sched, items) ==
    IF items = <<>> THEN sched
    ELSE LET it == Head(items) IN
         IF ~it.dict THEN AppendNew(sched, Tail(items))
         ELSE IF Sig(it) \notin SeenSigs(sched)
              THEN AppendNew(Append(sched, it), Tail(items))
              ELSE AppendNew(sched, Tail(items))

\* a bug: the schedule of an existing entry is left as it is
MergeStation_KeepFirst(m, st) ==
    IF Key(st) \notin DOMAIN m THEN (Key(st) :> st) @@ m ELSE m

\* a bug: an existing entry is replaced by the incoming station
MergeStation_Overwrite(m, st) == (Key(st) :> st) @@ m

\* the body of merge's loop for one station.  A stored station always has a
\* "schedule" entry, so `not cur` is true only when the key is absent.
MergeStation(m, st) ==
    IF Key(st) \notin DOMAIN m
    THEN (Key(st) :> st) @@ m
    ELSE [m EXCEPT ![Key(st)].schedule = AppendNew(@, st.schedule)]

RECURSIVE MergeLoop(_, _)
MergeLoop(m, stations) ==
    IF stations = <<>> THEN m
    ELSE MergeLoop(MergeStation(m, Head(stations)), Tail(stations))

merge(m, stations) == MergeLoop(m, stations)

EmptyMap == <<>>

(***************************************************************************)
(* JSON values and response texts                                          *)
(*                                                                         *)
(* A JSON value is a record [t, s, m]: t is its type, s the content of a   *)
(* scalar, m the members of a mapping (records [k, v]) or the elements of  *)
(* a list (records [k, v] with k = "").  Python's None and JSON's null are *)
(* both JNone.  A response text is a sequence of tokens [c, x], each       *)
(* standing for a fixed piece of text:                                     *)
(*   p  one of { } [ ] , :            s  a string literal "x"              *)
(*   n  a number literal              l  true, false or null               *)
(*   w  whitespace                    q  a bare quote character, " or '    *)
(*   es a string literal whose quotes are backslash-escaped, \"x\"         *)
(*   hs a string literal whose quotes are HTML entities, &quot;x&quot;     *)
(*   xs a string literal "x" holding a backslash escape JSON does not know *)
(*   t  an HTML or script fragment: tmpl (<script id="dv-web-store-        *)
(*      template">), close (</script>), apollo (window.__APOLLO_STATE__=), *)
(*      semi (;), html (any other markup)                                  *)
(***************************************************************************)
JNone == [t |-> "none", s |-> "", m |-> <<>>]
JStr(x) == [t |-> "str", s |-> x, m |-> <<>>]
JNum(x) == [t |-> "num", s |-> x, m |-> <<>>]
JBool(x) == [t |-> "bool", s |-> x, m |-> <<>>]
JDict(members) == [t |-> "dict", s |-> "", m |-> members]
JList(elems) == [t |-> "list", s |-> "", m |-> [n \in DOMAIN elems |-> [k |-> "", v |-> elems[n]]]]
KV(k, v) == [k |-> k, v |-> v]

\* Python truthiness of a parsed value
Truthy(v) ==
    CASE v.t = "none" -> FALSE
      [] v.t = "bool" -> v.s = "true"
      [] v.t = "num"  -> v.s # "0"
      [] v.t = "str"  -> v.s # ""
      [] OTHER        -> v.m # <<>>

Tok(c, x) == [c |-> c, x |-> x]
LB == Tok("p", "{")
RB == Tok("p", "}")
LS == Tok("p", "[")
RS == Tok("p", "]")
Comma == Tok("p", ",")
Colon == Tok("p", ":")
WS == Tok("w", " ")

\* dict semantics of json.loads: a repeated key keeps its place, the last value wins
SetMember(ms, k, v) ==
    IF \E n \in DOMAIN ms : ms[n].k = k
    THEN [n \in DOMAIN ms |-> IF ms[n].k = k THEN KV(k, v) ELSE ms[n]]
    ELSE Append(ms, KV(k, v))

RECURSIVE SkipWs(_, _)
SkipWs(toks, i) ==
    IF i <= Len(toks) /\ toks[i].c = "w" THEN SkipWs(toks, i + 1) ELSE i

ParseFail == [ok |-> FALSE, v |-> JNone, i |-> 0]
ParseOk(v, i) == [ok |-> TRUE, v |-> v, i |-> i]

\* the index of the quote closing a string opened by a bare double quote at
\* i - 1, or 0: an unescaped quote or an unknown escape inside ends the parse
RECURSIVE CloseQuote(_, _)
CloseQuote(toks, i) ==
    IF i > Len(toks) THEN 0
    ELSE IF toks[i] = Tok("q", "\"") THEN i
    ELSE IF toks[i].c \in {"s", "xs", "q"} THEN 0
    ELSE CloseQuote(toks, i + 1)

\* json.loads, by recursive descent from token i
RECURSIVE ParseValue(_, _), ParseMembers(_, _, _), ParseElems(_, _, _)
ParseValue(toks, i0) ==
    LET i == SkipWs(toks, i0) IN
    IF i > Len(toks) THEN ParseFail
    ELSE LET tk == toks[i] IN
         CASE tk.c = "s" -> ParseOk(JStr(tk.x), i + 1)
           [] tk.c = "n" -> ParseOk(JNum(tk.x), i + 1)
           [] tk.c = "l" -> ParseOk(IF tk.x = "null" THEN JNone ELSE JBool(tk.x), i + 1)
           [] tk = Tok("q", "\"") ->
                LET j == CloseQuote(toks, i + 1) IN
                IF j = 0 THEN ParseFail ELSE ParseOk(JStr("text"), j + 1)
           [] tk = LB ->
                LET j == SkipWs(toks, i + 1) IN
                IF j <= Len(toks) /\ toks[j] = RB THEN ParseOk(JDict(<<>>), j + 1)
                ELSE ParseMembers(toks, j, <<>>)
           [] tk = LS ->
                LET j == SkipWs(toks, i + 1) IN
                IF j <= Len(toks) /\ toks[j] = RS THEN ParseOk(JList(<<>>), j + 1)
                ELSE ParseElems(toks, j, <<>>)
           [] OTHER -> ParseFail

\* "key" : value, then a comma and another member or the closing brace
ParseMembers(toks, i, acc) ==
    IF i > Len(toks) \/ toks[i].c # "s" THEN ParseFail
    ELSE LET c == SkipWs(toks, i + 1) IN
         IF c > Len(toks) \/ toks[c] # Colon THEN ParseFail
         ELSE LET r == ParseValue(toks, c + 1) IN
              IF ~r.ok THEN ParseFail
              ELSE LET j  == SkipWs(toks, r.i)
                       ms == SetMember(acc, toks[i].x, r.v)
                   IN IF j > Len(toks) THEN ParseFail
                      ELSE IF toks[j] = RB THEN ParseOk(JDict(ms), j + 1)
                      ELSE IF toks[j] = Comma
                           THEN ParseMembers(toks, SkipWs(toks, j + 1), ms)
                      ELSE ParseFail

ParseElems(toks, i, acc) ==
    LET r == ParseValue(toks, i) IN
    IF ~r.ok THEN ParseFail
    ELSE LET j  == SkipWs(toks, r.i)
             es == Append(acc, KV("", r.v))
         IN IF j > Len(toks) THEN ParseFail
            ELSE IF toks[j] = RS THEN ParseOk([t |-> "list", s |-> "", m |-> es], j + 1)
            ELSE IF toks[j] = Comma THEN ParseElems(toks, SkipWs(toks, j + 1), es)
            ELSE ParseFail

\* _try_json (src/prime_livetv.py:135-139): the parsed value, None when
\* json.loads raises; the whole text must be one value
Whole(toks, r) == IF r.ok /\ SkipWs(toks, r.i) > Len(toks) THEN r.v ELSE JNone
try_json(toks) == Whole(toks, ParseValue(toks, 1))

(***************************************************************************)
(* The payload locator (src/prime_livetv.py:130-172)                       *)
(***************************************************************************)
TTmpl == Tok("t", "tmpl")
TClose == Tok("t", "close")
TApollo == Tok("t", "apollo")
TSemi == Tok("t", "semi")
THtml == Tok("t", "html")

Min(S) == CHOOSE x \in S : \A y \in S : x <= y
Max(S) == CHOOSE x \in S : \A y \in S : x >= y

\* html_unescape: entity-quoted string literals become plain ones
html_unescape(toks) ==
    [n \in DOMAIN toks |-> IF toks[n].c = "hs" THEN Tok("s", toks[n].x) ELSE toks[n]]

\* str.strip()
strip(toks) ==
    LET solid == { n \in DOMAIN toks : toks[n].c # "w" } IN
    IF solid = {} THEN <<>> ELSE SubSeq(toks, Min(solid), Max(solid))

\* re.sub(r'\\([^"\\/bfnrtu])', ...): a backslash before a character JSON
\* does not escape is dropped; \" is kept
sanitize_json_escapes(toks) ==
    [n \in DOMAIN toks |-> IF toks[n].c = "xs" THEN Tok("s", toks[n].x) ELSE toks[n]]

\* the first and the last character of the text a token stands for
FirstChar(tk) ==
    CASE tk.c \in {"s", "xs"} -> "\""
      [] tk.c \in {"q", "p"}  -> tk.x
      [] OTHER                -> "other"
LastChar(tk) ==
    CASE tk.c \in {"s", "xs", "es"} -> "\""
      [] tk.c \in {"q", "p"}        -> tk.x
      [] OTHER                      -> "other"

\* content[:1] in "\"'" and content[-1:] == content[:1]; both slices of the
\* empty text are empty, and the empty text is `in` every text
Quoted(content) ==
    \/ content = <<>>
    \/ /\ FirstChar(content[1]) \in {"\"", "'"}
       /\ LastChar(content[Len(content)]) = FirstChar(content[1])

\* content[1:-1].replace('\\"', '"').replace("\\/", "/").  When the first or
\* the last character belongs to a string literal, what is left is no JSON.
Unquote(content) ==
    IF Len(content) <= 1 THEN <<>>
    ELSE IF content[1].c = "q" /\ content[Len(content)].c = "q"
    THEN LET inner == SubSeq(content, 2, Len(content) - 1) IN
         [n \in DOMAIN inner |->
             IF inner[n].c = "es" THEN Tok("s", inner[n].x) ELSE inner[n]]
    ELSE <<THtml>>

Candidates(content) ==
    IF Quoted(content) THEN <<content, Unquote(content)>> ELSE <<content>>

\* Python's `a or b`
Or(a, b) == IF Truthy(a) THEN a ELSE b

\* if js: return js, the next strategy otherwise
IfTruthy(js) == IF Truthy(js) THEN js ELSE JNone

\* _try_json(c) or _try_json(_sanitize_json_escapes(c))
TryBoth(c) == Or(try_json(c), try_json(sanitize_json_escapes(c)))

\* for candidate in candidates: js = ...; if js: return js
RECURSIVE FirstTruthy(_)
FirstTruthy(cands) ==
    IF cands = <<>> THEN JNone
    ELSE Or(TryBoth(Head(cands)), FirstTruthy(Tail(cands)))

\* SCRIPT_ID_RE.search: the leftmost template script element that is closed,
\* its content running to the first </script>
FromScript(html) ==
    LET opens == { n \in DOMAIN html : html[n] = TTmpl } IN
    IF opens = {} THEN JNone
    ELSE LET a      == Min(opens)
             closes == { n \in DOMAIN html : n > a /\ html[n] = TClose }
         IN IF closes = {} THEN JNone
            ELSE FirstTruthy(Candidates(
                     strip(html_unescape(SubSeq(html, a + 1, Min(closes) - 1)))))

\* html_text.find('"containerType":"EpgGroup"')
MarkerAt(html, n) ==
    /\ n + 2 <= Len(html)
    /\ html[n] = Tok("s", "containerType")
    /\ html[n + 1] = Colon
    /\ html[n + 2] = Tok("s", "EpgGroup")

\* while i < len(html_text): the depth after token i of a scan that starts
\* at token start with depth 0
Depth(html, start, i) ==
    Cardinality({ j \in start..i : html[j] = LB })
        - Cardinality({ j \in start..i : html[j] = RB })

\* the index at which the depth first returns to 0 at a "}"; 0 when it never
\* does and the loop runs off the end of the text
ScanEnd(html, start) ==
    LET ends == { i \in start..Len(html) : html[i] = RB /\ Depth(html, start, i) = 0 } IN
    IF ends = {} THEN 0 ELSE Min(ends)

\* the chunk from the nearest "{" before the marker to the brace closing it;
\* the scan stops at the first return to depth 0 whether the chunk parses or not
FromEpgGroup(html) ==
    LET marks == { n \in DOMAIN html : MarkerAt(html, n) } IN
    IF marks = {} THEN JNone
    ELSE LET epg_idx == Min(marks)
             braces  == { n \in DOMAIN html : n < epg_idx /\ html[n] = LB }
         IN IF braces = {} THEN JNone
            ELSE LET start == Max(braces)
                     end   == ScanEnd(html, start)
                 IN IF end = 0 THEN JNone
                    ELSE IfTruthy(TryBoth(SubSeq(html, start, end)))

\* window\.__APOLLO_STATE__\s*=\s*({.*?});\s*</script>: the leftmost
\* assignment that can be matched, its object literal as short as possible
ApolloEnd(html, a) ==
    LET b == SkipWs(html, a + 1) IN
    IF ~(b <= Len(html) /\ html[b] = LB) THEN {}
    ELSE { e \in DOMAIN html :
             /\ e > b
             /\ html[e] = RB
             /\ e + 1 <= Len(html) /\ html[e + 1] = TSemi
             /\ LET c == SkipWs(html, e + 2) IN c <= Len(html) /\ html[c] = TClose }

FromApollo(html) ==
    LET starts == { a \in DOMAIN html : html[a] = TApollo /\ ApolloEnd(html, a) # {} } IN
    IF starts = {} THEN JNone
    ELSE LET a == Min(starts)
             b == SkipWs(html, a + 1)
         IN IfTruthy(try_json(SubSeq(html, b, Min(ApolloEnd(html, a)))))

\* a bug: a text that parses as it stands is returned whole
extract_store_DirectFirst(html) ==
    Or(try_json(html), Or(FromScript(html), Or(FromEpgGroup(html), FromApollo(html))))

\* extract_store_json_from_html: script element, then EpgGroup scan, then
\* Apollo state; None when none gives a truthy value
extract_store_json_from_html(html) ==
    Or(FromScript(html), Or(FromEpgGroup(html), FromApollo(html)))

(***************************************************************************)
(* The station extractor (src/prime_livetv.py:174-198)                     *)
(***************************************************************************)
Has(o, k) == o.t = "dict" /\ \E n \in DOMAIN o.m : o.m[n].k = k
Get(o, k) == IF Has(o, k) THEN o.m[CHOOSE n \in DOMAIN o.m : o.m[n].k = k].v ELSE JNone

Values(o) == [n \in DOMAIN o.m |-> o.m[n].v]

\* a scalar read with .get(): ids, names, logos, titles and times are
\* strings or numbers where present, None otherwise
Scalar(v) == IF v.t \in {"str", "num"} THEN v.s ELSE None

\* a schedule element as the merge engine reads it
ItemOf(v) ==
    IF v.t # "dict" THEN Junk
    ELSE LET md == Get(v, "metadata") IN
         Item(Scalar(Get(v, "start")), Scalar(Get(v, "end")), Truthy(md),
              IF Truthy(md) THEN Scalar(Get(md, "title")) ELSE None,
              IF Truthy(md) THEN Scalar(Get(md, "synopsis")) ELSE None)

\* a station mapping as the merge engine reads it: st.get("id"),
\* st.get("name"), st.get("logo"), st.get("schedule") or []
StationOf(o) ==
    LET sc == Get(o, "schedule") IN
    Station(Scalar(Get(o, "id")), Scalar(Get(o, "name")), Scalar(Get(o, "logo")),
            IF sc.t = "list" THEN [n \in DOMAIN sc.m |-> ItemOf(sc.m[n].v)] ELSE <<>>)

\* the station of every entity that has one
EntityStations(ents) ==
    LET picked == SelectSeq(ents, LAMBDA e : Get(e, "station").t = "dict") IN
    [n \in DOMAIN picked |-> Get(picked[n], "station")]

\* what walk() collects at one mapping
OwnStations(o) ==
       (IF Get(o, "containerType") = JStr("EpgGroup") /\ Get(o, "entities").t = "list"
        THEN EntityStations(Values(Get(o, "entities"))) ELSE <<>>)
    \o (IF Get(o, "station").t = "dict" THEN <<Get(o, "station")>> ELSE <<>>)
    \o (IF Get(o, "stations").t = "list"
        THEN SelectSeq(Values(Get(o, "stations")),
                       LAMBDA st : st.t = "dict" /\ (Has(st, "schedule") \/ Has(st, "name")))
        ELSE <<>>)

RECURSIVE walk(_), walkAll(_)
walk(o) ==
    IF o.t = "dict" THEN OwnStations(o) \o walkAll(Values(o))
    ELSE IF o.t = "list" THEN walkAll(Values(o))
    ELSE <<>>
walkAll(vs) == IF vs = <<>> THEN <<>> ELSE walk(Head(vs)) \o walkAll(Tail(vs))

\* seen = set(); uniq = []: the first station of every key
RECURSIVE Uniq(_, _)
Uniq(sts, seen) ==
    IF sts = <<>> THEN <<>>
    ELSE IF Key(Head(sts)) \in seen THEN Uniq(Tail(sts), seen)
    ELSE <<Head(sts)>> \o Uniq(Tail(sts), seen \cup {Key(Head(sts))})

extract_epg(payload) ==
    LET found == walk(payload) IN
    Uniq([n \in DOMAIN found |-> StationOf(found[n])], {})

(***************************************************************************)
(* Response texts the driver is exercised with.  Compact(v) is the text of *)
(* value v without whitespace, as the pages embed it.                      *)
(***************************************************************************)
RECURSIVE Compact(_), CompactAll(_, _)
Compact(v) ==
    CASE v.t = "none" -> <<Tok("l", "null")>>
      [] v.t = "bool" -> <<Tok("l", v.s)>>
      [] v.t = "num"  -> <<Tok("n", v.s)>>
      [] v.t = "str"  -> <<Tok("s", v.s)>>
      [] v.t = "dict" -> <<LB>> \o CompactAll(v.m, TRUE) \o <<RB>>
      [] OTHER        -> <<LS>> \o CompactAll(v.m, FALSE) \o <<RS>>
CompactAll(ms, keyed) ==
    IF ms = <<>> THEN <<>>
    ELSE (IF keyed THEN <<Tok("s", Head(ms).k), Colon>> ELSE <<>>)
         \o Compact(Head(ms).v)
         \o (IF Tail(ms) = <<>> THEN <<>> ELSE <<Comma>>)
         \o CompactAll(Tail(ms), keyed)

\* the same text with its string literals quoted by backslash-escaped quotes
Escaped(toks) ==
    [n \in DOMAIN toks |-> IF toks[n].c = "s" THEN Tok("es", toks[n].x) ELSE toks[n]]

JItem(it) ==
    JDict(<<KV("start", JNum(it.start)), KV("end", JNum(it.end))>>
          \o (IF it.meta
              THEN <<KV("metadata", JDict(<<KV("title", JStr(it.title)),
                                            KV("synopsis", JStr(it.synopsis))>>))>>
              ELSE <<>>))

JStation(st) ==
    JDict((IF st.id = None THEN <<>> ELSE <<KV("id", JStr(st.id))>>)
          \o <<KV("name", JStr(st.name))>>
          \o (IF st.logo = None THEN <<>> ELSE <<KV("logo", JStr(st.logo))>>)
          \o <<KV("schedule", JList([n \in DOMAIN st.schedule |-> JItem(st.schedule[n])]))>>)

JEpgGroup(stations) ==
    JDict(<<KV("containerType", JStr("EpgGroup")),
            KV("entities", JList([n \in DOMAIN stations |->
                                     JDict(<<KV("station", JStation(stations[n]))>>)]))>>)

\* a carousel of live events, no EPG container
JLiveEvents ==
    JDict(<<KV("containerType", JStr("Carousel")),
            KV("entities", JList(<<JDict(<<KV("entityType", JStr("EVENT")),
                                           KV("isLive", JBool("true")),
                                           KV("title", JStr("Breaking"))>>)>>))>>)

PageA1 == JEpgGroup(<<Station("a", "A", "L1", <<E1>>)>>)
PageA2B == JEpgGroup(<<Station("a", "A", "L2", <<E3, E1>>), Station(None, "B", "L2", <<E3>>)>>)
PageB == JDict(<<KV("stations", JList(<<JStation(Station(None, "B", None, <<E1, E1>>))>>))>>)

HtmlPool ==
    { \* the store in the template script element
      <<THtml, TTmpl>> \o Compact(JDict(<<KV("props", PageA1)>>)) \o <<TClose, THtml>>,
      \* the store inline in the page, under a property of another object
      <<THtml>> \o Compact(JDict(<<KV("props", PageA2B)>>)) \o <<THtml>>,
      \* the store assigned to the Apollo state
      <<THtml, TApollo, WS>> \o Compact(PageB) \o <<TSemi, WS, TClose>>,
      \* a store with live events and no station
      <<TTmpl>> \o Compact(JLiveEvents) \o <<TClose>>,
      \* a page with no store
      <<THtml, Tok("t", "script"), LB, RB, TClose, THtml>>,
      \* the store as a JavaScript string in double quotes: parsed to a string
      <<TTmpl, Tok("q", "\"")>> \o Escaped(Compact(PageA1)) \o <<Tok("q", "\""), TClose>>,
      \* the same in single quotes
      <<TTmpl, Tok("q", "'")>> \o Escaped(Compact(PageA1)) \o <<Tok("q", "'"), TClose>>,
      \* response texts that are JSON documents as they stand
      Compact(PageA1),
      Compact(JDict(<<KV("data", PageA2B)>>)),
      Compact(JDict(<<KV("k", JNum("1"))>>)),
      Compact(JDict(<<KV("k", JDict(<<>>)), KV("containerType", JStr("EpgGroup")),
                      KV("stations", JList(<<JStation(Station("a", "A", "L1", <<E2>>))>>))>>)) }

\* bodies the POST endpoint answers with
PostBodies ==
    { Compact(PageA1),
      Compact(JDict(<<KV("data", PageA2B)>>)),
      Compact(JLiveEvents),
      <<THtml>> }

(***************************************************************************)
(* The network and the driver (src/prime_livetv.py:271-380)                *)
(***************************************************************************)
\* apply_live_urls returns five URLs
NumLiveUrls == 5

Url(src, n) == [src |-> src, n |-> n]

apply_live_urls == [n \in 1..NumLiveUrls |-> Url("live", n)]

\* a bug: no defaults
StartUrls_NoDefault(nargs) == [n \in 1..nargs |-> Url("arg", n)]

\* main lines 311-313: the --url arguments, the built-in URLs when there are none
StartUrls(nargs) ==
    IF nargs = 0 THEN apply_live_urls ELSE [n \in 1..nargs |-> Url("arg", n)]

\* what a GET can bring: a transport error, or a status and a body
GetOutcomes ==
    {[err |-> TRUE, status |-> 0, body |-> <<>>]}
    \cup {[err |-> FALSE, status |-> 503,
           body |-> <<THtml, TTmpl>> \o Compact(PageA1) \o <<TClose, THtml>>]}
    \cup {[err |-> FALSE, status |-> 200, body |-> b] : b \in HtmlPool \cup {<<>>}}

\* fetch_html: (status, text), (0, "") on requests.RequestException
fetch_html(net) ==
    IF net.err THEN [status |-> 0, html |-> <<>>]
    ELSE [status |-> net.status, html |-> net.body]

\* what a POST can bring: a transport error, or a status and a body; a body
\* that starts with the gzip magic bytes inflates to its text or is no gzip
\* stream at all
PostOutcomes ==
    {[err |-> TRUE, gzip |-> "no", status |-> 0, body |-> <<>>]}
    \cup {[err |-> FALSE, gzip |-> "bad", status |-> 200, body |-> <<>>]}
    \cup {[err |-> FALSE, gzip |-> "no", status |-> 500, body |-> Compact(PageA1)]}
    \cup {[err |-> FALSE, gzip |-> g, status |-> 200, body |-> b] :
             g \in {"no", "ok"}, b \in PostBodies}

\* stations = extract_epg(store), next to the store it is read from
WithStations(store) == [store |-> store, stations |-> extract_epg(store)]

\* the locator and the extractor on every body a GET can bring, json.loads
\* and the extractor on every body a POST can bring
Located == [b \in { o.body : o \in GetOutcomes } |->
               WithStations(extract_store_json_from_html(b))]
Posted == [b \in { o.body : o \in PostOutcomes } |-> WithStations(try_json(b))]

\* post_json: (status, parsed or None); only requests.RequestException is
\* caught, so what gzip raises on a broken stream leaves post_json and main
post_json(net) ==
    IF net.err THEN [raised |-> FALSE, status |-> 0, html |-> net.body, j |-> JNone]
    ELSE IF net.gzip = "bad"
    THEN [raised |-> TRUE, status |-> net.status, html |-> net.body, j |-> JNone]
    ELSE [raised |-> FALSE, status |-> net.status, html |-> net.body,
          j |-> Posted[net.body].store]

\* what one round of a loop did with a response and what it left in the map
Round(kind, r, store, m) ==
    [kind |-> kind, status |-> r.status, html |-> r.html, store |-> store, master |-> m]

\* a bug: a store without stations contributes a station made up
\* from its live event
Contribute_Synthesized(m, r, loc) ==
    IF loc.stations = <<>>
    THEN Round("merged", r, loc.store,
               merge(m, <<Station(None, "Breaking", None,
                                  <<Item("0", "7200", TRUE, "Breaking", None)>>)>>))
    ELSE Round("merged", r, loc.store, merge(m, loc.stations))

\* lines 339-345 and 360-365: if not stations: skip; merge(master, stations)
Contribute(m, r, loc) ==
    IF loc.stations = <<>> THEN Round("nostations", r, loc.store, m)
    ELSE Round("merged", r, loc.store, merge(m, loc.stations))

\* a bug: the status of the response is not looked at
ProcessResponse_AnyStatus(m, r) ==
    IF r.html = <<>> THEN Round("failed", r, JNone, m)
    ELSE IF ~Truthy(Located[r.html].store) THEN Round("nostore", r, JNone, m)
    ELSE Contribute(m, r, Located[r.html])

\* the body of the URL loop after the fetch (lines 332-345)
ProcessResponse(m, r) ==
    IF r.status # 200 \/ r.html = <<>> THEN Round("failed", r, JNone, m)
    ELSE IF ~Truthy(Located[r.html].store) THEN Round("nostore", r, JNone, m)
    ELSE Contribute(m, r, Located[r.html])

\* the body of the POST loop after the request (lines 354-365)
ProcessPost(m, r) ==
    IF r.raised THEN Round("raised", r, JNone, m)
    ELSE IF r.status # 200 \/ r.j = JNone THEN Round("failed", r, r.j, m)
    ELSE Contribute(m, r, Posted[r.html])

\* a bug: the fallback does not look at the master map
NeedFallback_AnyMaster(m, o) == o.p1 \/ o.p2

\* line 348: not master and (opts.payload_1 or opts.payload_2)
NeedFallback(m, o) == m = EmptyMap /\ (o.p1 \/ o.p2)

Supplied(o, n) == IF n = 1 THEN o.p1 ELSE o.p2

\* the next payload the POST loop does not skip, 0 when there is none
NextPayload(o, from) ==
    IF \E n \in from..2 : Supplied(o, n)
    THEN Min({ n \in from..2 : Supplied(o, n) }) ELSE 0

NoResponse == [op |-> "none", status |-> 0, html |-> <<>>, store |-> JNone, kind |-> "none"]

Seen(op, out) ==
    [op |-> op, status |-> out.status, html |-> out.html, store |-> out.store,
     kind |-> out.kind]

Init ==
    /\ pc = "start"
    /\ opts \in [nargs : 0..MaxUrls, p1 : BOOLEAN, p2 : BOOLEAN]
    /\ urls = <<>>
    /\ idx = 0
    /\ fetched = <<>>
    /\ sleeps = 0
    /\ pidx = 0
    /\ posted = <<>>
    /\ urlMerges = 0
    /\ exit = -1
    /\ written = FALSE
    /\ last = NoResponse
    /\ master = EmptyMap
    /\ calls = 0
    /\ incoming = EmptyMap
    /\ again = EmptyMap
    /\ pairOK = FALSE
    /\ swapped = EmptyMap

\* lines 367-380 once both loops are over: status 3 and no file when the
\* master map is empty, the file and status 0 otherwise
Finish(m) ==
    /\ pc' = "done"
    /\ exit' = IF m = EmptyMap THEN 3 ELSE 0
    /\ written' = (m # EmptyMap)

\* the end of the URL loop: the fallback test of line 348, the POST loop when
\* it passes, the end of main when it does not
AfterUrls(m) ==
    IF NeedFallback(m, opts)
    THEN /\ pc' = "posts"
         /\ pidx' = NextPayload(opts, 1)
         /\ UNCHANGED <<exit, written>>
    ELSE /\ Finish(m)
         /\ UNCHANGED pidx

\* lines 311-320: the arguments are read, the master map is created
Start ==
    /\ pc = "start"
    /\ urls' = StartUrls(opts.nargs)
    /\ IF StartUrls(opts.nargs) = <<>>
       THEN AfterUrls(master)
       ELSE /\ pc' = "urls"
            /\ UNCHANGED <<pidx, exit, written>>
    /\ UNCHANGED <<master, mergeVars, opts, idx, fetched, sleeps, posted, urlMerges, last>>

\* what one round of the URL loop leaves behind
UrlRound(out) ==
    /\ master' = out.master
    /\ last' = Seen("get", out)
    /\ urlMerges' = urlMerges + (IF out.kind = "merged" THEN 1 ELSE 0)
    /\ idx' = idx + 1
    /\ fetched' = Append(fetched, idx + 1)
    /\ sleeps' = sleeps + 1
    /\ IF idx + 1 < Len(urls)
       THEN UNCHANGED <<pc, pidx, exit, written>>
       ELSE AfterUrls(out.master)

\* one round of the URL loop (lines 323-345); after the last URL, the
\* fallback test
FetchUrl(net) ==
    /\ pc = "urls"
    /\ idx < Len(urls)
    /\ UrlRound(ProcessResponse(master, fetch_html(net)))
    /\ UNCHANGED <<mergeVars, opts, urls, posted>>

\* what one round of the POST loop leaves behind: an exception that nothing
\* catches ends the interpreter with a traceback and status 1
PostRound(out) ==
    /\ posted' = Append(posted, [n |-> pidx, kind |-> out.kind])
    /\ last' = Seen("post", out)
    /\ master' = out.master
    /\ IF out.kind = "raised"
       THEN /\ pc' = "crashed"
            /\ exit' = 1
            /\ UNCHANGED <<pidx, written>>
       ELSE IF NextPayload(opts, pidx + 1) # 0
       THEN /\ pidx' = NextPayload(opts, pidx + 1)
            /\ UNCHANGED <<pc, exit, written>>
       ELSE /\ Finish(out.master)
            /\ UNCHANGED pidx

\* one request of the POST loop (lines 350-365); after the last payload, the
\* end of main
PostPayload(net) ==
    /\ pc = "posts"
    /\ PostRound(ProcessPost(master, post_json(net)))
    /\ UNCHANGED <<mergeVars, opts, urls, idx, fetched, sleeps, urlMerges>>

Next ==
    \/ Start
    \/ \E net \in GetOutcomes : FetchUrl(net)
    \/ \E net \in PostOutcomes : PostPayload(net)

Spec == Init /\ [][Next]_vars

(***************************************************************************)
(* The merge engine on its own: any sequence of merge calls on one map     *)
(***************************************************************************)
Items(stations) ==
    UNION { { stations[n].schedule[j] : j \in DOMAIN stations[n].schedule }
            : n \in DOMAIN stations }

AllMappings(stations) == \A it \in Items(stations) : it.dict

\* no two different items of the two lists share a (start, end, title) signature
NoCollisions(A, B) ==
    \A x \in Items(A) \cup Items(B) : \A y \in Items(A) \cup Items(B) :
        Sig(x) = Sig(y) => x = y

RECURSIVE Offer(_, _)
Offer(inc, stations) ==
    IF stations = <<>> THEN inc
    ELSE LET st   == Head(stations)
             sigs == SeenSigs(st.schedule)
             old  == IF Key(st) \in DOMAIN inc THEN inc[Key(st)]
                     ELSE [sigs |-> {}, logos |-> {}]
         IN Offer((Key(st) :> [sigs  |-> old.sigs \cup sigs,
                               logos |-> old.logos \cup {st.logo}]) @@ inc,
                  Tail(stations))

MergeInit ==
    /\ pc = "merge"
    /\ opts = [nargs |-> 0, p1 |-> FALSE, p2 |-> FALSE]
    /\ urls = <<>>
    /\ idx = 0
    /\ fetched = <<>>
    /\ sleeps = 0
    /\ pidx = 0
    /\ posted = <<>>
    /\ urlMerges = 0
    /\ exit = -1
    /\ written = FALSE
    /\ last = NoResponse
    /\ master = EmptyMap
    /\ calls = 0
    /\ incoming = EmptyMap
    /\ again = EmptyMap
    /\ pairOK = FALSE
    /\ swapped = EmptyMap

\* one call merge(master, S)
Merge(S) ==
    /\ calls + 1 <= MaxCalls
    /\ master' = merge(master, S)
    /\ calls' = calls + 1
    /\ incoming' = Offer(incoming, S)
    /\ again' = merge(master', S)
    /\ pairOK' = FALSE
    /\ swapped' = master'
    /\ UNCHANGED mainVars

\* two calls in a row, merge(master, A) then merge(master, B)
MergePair(A, B) ==
    /\ calls + 2 <= MaxCalls
    /\ master' = merge(merge(master, A), B)
    /\ calls' = calls + 2
    /\ incoming' = Offer(Offer(incoming, A), B)
    /\ again' = merge(master', B)
    /\ pairOK' = (AllMappings(A) /\ AllMappings(B) /\ NoCollisions(A, B))
    /\ swapped' = merge(merge(master, B), A)
    /\ UNCHANGED mainVars

MergeNext ==
    \/ \E S \in StationLists : Merge(S)
    \/ \E A \in StationLists : \E B \in StationLists : MergePair(A, B)

SpecMerge == MergeInit /\ [][MergeNext]_vars

IsPrefix(s, t) == Len(s) <= Len(t) /\ SubSeq(t, 1, Len(s)) = s

SchedSet(st) == { st.schedule[n] : n \in DOMAIN st.schedule }

NoDupSig(sched) ==
    \A a \in DOMAIN sched : \A b \in DOMAIN sched :
        (a # b /\ sched[a].dict /\ sched[b].dict) => Sig(sched[a]) # Sig(sched[b])

\* C1: across merge calls a key once inserted stays, its station keeps its id,
\* name and logo, and its schedule only grows at the end.
C1_KeysStable ==
    [][\A k \in DOMAIN master :
          /\ k \in DOMAIN master'
          /\ Key(master'[k]) = k
          /\ master'[k].id = master[k].id
          /\ master'[k].name = master[k].name
          /\ master'[k].logo = master[k].logo
          /\ IsPrefix(master[k].schedule, master'[k].schedule)]_vars

\* a key was offered under two logos, over several calls, and its schedule grew
C1_Witness ==
    \E k \in DOMAIN master :
        /\ calls >= 2
        /\ Cardinality(incoming[k].logos) >= 2
        /\ Len(master[k].schedule) >= 3

\* C2 as claimed: every schedule holds exactly the signatures handed in for
\* its key and no signature twice, a first-seen station included.
C2_UnionNoDuplicates ==
    \A k \in DOMAIN master :
        /\ SeenSigs(master[k].schedule) = incoming[k].sigs
        /\ NoDupSig(master[k].schedule)

\* C8: for lists of mappings without signature collisions, merging A then B
\* and merging B then A give every key the same set of schedule items.
C8_CommutativeBySet ==
    pairOK =>
        /\ DOMAIN swapped = DOMAIN master
        /\ \A k \in DOMAIN master : SchedSet(swapped[k]) = SchedSet(master[k])

\* the two orders gave different maps that agree as sets
C8_Witness ==
    /\ pairOK
    /\ swapped # master
    /\ \E k \in DOMAIN master : Len(master[k].schedule) >= 2

\* C9: merging the same list a second time changes nothing.
C9_Idempotent == again = master

\* a call that added a key and appended to another
C9_Witness ==
    /\ calls >= 2
    /\ again = master
    /\ Cardinality(DOMAIN master) >= 2
    /\ \E k \in DOMAIN master : Len(master[k].schedule) >= 3

(***************************************************************************)
(* Properties of the driver                                                *)
(***************************************************************************)
Titles(m) ==
    UNION { { m[k].schedule[n].title : n \in DOMAIN m[k].schedule } : k \in DOMAIN m }

\* C3, as the driver does it: when the store located for a URL holds no EPG
\* station (here a carousel with one live EVENT entity titled "Breaking"),
\* the URL is skipped; no station is synthesized and the master map stays
\* exactly as it was.
C3_SkippedWithoutSynthesis ==
    [][(idx' = idx + 1 /\ last'.store = JLiveEvents) =>
          /\ last'.kind = "nostations"
          /\ master' = master
          /\ "Breaking" \notin Titles(master')]_vars

\* the live-event store came back for the second URL, after a first URL
\* that contributed stations
C3_Witness ==
    /\ last.op = "get"
    /\ last.store = JLiveEvents
    /\ last.kind = "nostations"
    /\ idx = 2
    /\ master # EmptyMap

\* C3 as claimed: the live-event store contributes one synthesized station
\* whose single schedule entry carries the event's title.
C3_LiveEventSynthesized ==
    (last.op = "get" /\ last.store = JLiveEvents) =>
        \E k \in DOMAIN master :
            /\ Len(master[k].schedule) = 1
            /\ master[k].schedule[1].title = "Breaking"

\* C4, as the driver does it: without a URL argument the five built-in URLs
\* are taken and the exit status is never 2; the POST fallback and the end of
\* the run are reached only after all five were fetched, once each, in order.
C4_BuiltInUrls ==
    (opts.nargs = 0 /\ pc # "start") =>
        /\ urls = [n \in 1..NumLiveUrls |-> Url("live", n)]
        /\ exit # 2
        /\ (pc # "urls" => fetched = [n \in 1..NumLiveUrls |-> n])

\* a run without URL arguments that ended with status 3 after five fetches
C4_Witness ==
    /\ opts.nargs = 0
    /\ pc = "done"
    /\ exit = 3
    /\ Len(fetched) = NumLiveUrls
    /\ ~written

\* C4 as claimed: without a URL argument nothing is fetched, nothing is
\* written and the run ends with status 2.
C4_ExitTwoWithoutFetching ==
    opts.nargs = 0 =>
        /\ fetched = <<>>
        /\ ~written
        /\ (pc = "done" => exit = 2)

\* C5 as claimed: no failure of a single URL or POST ends the run early; a
\* run that is over returned 3 without writing exactly when the master map is
\* empty, and wrote the file and returned 0 otherwise.
C5_OnlyStatusThreeOrZero ==
    /\ pc # "crashed"
    /\ exit \in {-1, 0, 3}
    /\ (pc = "done" =>
           \/ (master = EmptyMap /\ exit = 3 /\ ~written)
           \/ (master # EmptyMap /\ exit = 0 /\ written))

\* C6: a POST is sent only after every URL was processed with the master map
\* still empty and a payload supplied; no POST follows a URL that contributed
\* a station; payloads go out at most once each, 1 before 2, and payload 2
\* still goes out after payload 1 filled the map.
C6_FallbackOnlyWhenEmpty ==
    /\ (pc = "posts" \/ posted # <<>>) =>
          /\ idx = Len(urls)
          /\ urlMerges = 0
          /\ (opts.p1 \/ opts.p2)
    /\ (pc = "posts" /\ posted = <<>>) => master = EmptyMap
    /\ \A a \in DOMAIN posted : posted[a].n \in 1..2 /\ Supplied(opts, posted[a].n)
    /\ \A a \in DOMAIN posted : \A b \in DOMAIN posted :
          a < b => posted[a].n < posted[b].n
    /\ (pc \in {"done", "crashed"} /\ posted # <<>>) =>
          \A n \in 1..2 : Supplied(opts, n) =>
              \/ \E a \in DOMAIN posted : posted[a].n = n
              \/ \E a \in DOMAIN posted : posted[a].n < n /\ posted[a].kind = "raised"

\* both payloads were posted, the first one filled the master map
C6_Witness ==
    /\ pc = "done"
    /\ Len(posted) = 2
    /\ posted[1].kind = "merged"
    /\ posted[1].n = 1
    /\ posted[2].n = 2

\* the ways a URL fails: transport error (status 0), non-200 status, empty
\* body, no store located, no station extracted
UrlFailed(l) ==
    \/ l.status # 200
    \/ l.html = <<>>
    \/ ~Truthy(extract_store_json_from_html(l.html))
    \/ extract_epg(extract_store_json_from_html(l.html)) = <<>>

\* C7: every round of the URL loop fetches the next URL in order, once, and
\* applies the delay; a URL that fails leaves the master map exactly as it
\* was and the loop goes on.
C7_FailedUrlLeavesMaster ==
    [][idx' = idx + 1 =>
          /\ fetched' = Append(fetched, idx + 1)
          /\ sleeps' = sleeps + 1
          /\ pc' # "crashed"
          /\ (UrlFailed(last') => master' = master)]_vars

\* a non-200 answer for the second URL, the first URL's stations still there
C7_Witness ==
    /\ idx = 2
    /\ fetched = <<1, 2>>
    /\ sleeps = 2
    /\ last.op = "get"
    /\ last.status = 503
    /\ last.kind = "failed"
    /\ master # EmptyMap

\* a response text that is a JSON document as it stands
ValidJson(h) == h # <<>> /\ h[1] \in {LB, LS} /\ ParseValue(h, 1).ok /\ try_json(h) # JNone

=============================================================================
